---- MODULE Spec2Model ----
(***************************************************************************)
(* Model of MalchuL/mmselfsup:                                             *)
(*   tools/prepare_ckpt_to_dct_net.py          (checkpoint filter script)  *)
(*   mmselfsup/models/backbones/style_transfer_vsa_v4.py   (VSGenerator)   *)
(***************************************************************************)
EXTENDS Integers, Sequences, FiniteSets, TLC

VARIABLES
    \* ---- tools/prepare_ckpt_to_dct_net.py ----
    ckpt_file,       \* the file at CKPT_PATH: a dict, top-level key -> value
    x,               \* the script's variable x (the loaded dict)
    state_dict,      \* the script's variable state_dict
    new_state_dict,  \* the script's variable new_state_dict
    out_file,        \* what is at OUT_PATH: <<>>, or <<d>> once torch.save wrote d
    pc,              \* the statement the script is about to execute
    \* ---- style_transfer_vsa_v4.py: module globals and live instances ----
    PADDING_MODE,    \* module global (line 54), assigned by VSGenerator.__init__
    UPSAMPLE_MODE,   \* module global (line 60), assigned by VSGenerator.__init__
    instances,       \* the VSGenerator instances constructed so far
    last_forward,    \* <<>>, or <<r>>: what the latest forward call used
    \* ---- style_transfer_vsa_v4.py: one Tree stage on its own ----
    tree_args,       \* the arguments Tree(...) is constructed with
    tree,            \* <<>>, or <<m>>: the constructed Tree
    tree_calls,      \* number of forward calls made on the Tree
    tree_ret,        \* <<>>, or <<r>>: what the latest forward call did
    \* ---- style_transfer_vsa_v4.py: one VSGenerator, built and run ----
    gen_args,        \* the arguments VSGenerator(...) is constructed with
    gen_in,          \* <<h, w>>: height and width of the input of forward
    gen,             \* <<>>, or <<m>>: the constructed VSGenerator
    gpc,             \* the statement the construct-and-forward run is at
    gen_err,         \* "" or the exception that ended the run
    fwd_out,         \* forward_features' variable out
    level_i,         \* forward_features' loop index i
    out_feats,       \* forward_features' list out_feats (forward's too)
    dla_layers,      \* DLAUp.forward's parameter layers (the copy)
    dla_out,         \* DLAUp.forward's list out (IDAUp.forward's layers)
    dla_i,           \* DLAUp.forward's loop index i
    ida_i,           \* IDAUp.forward's loop index i
    result           \* <<>>, or <<r>>: the list forward returned

ckptVars == <<ckpt_file, x, state_dict, new_state_dict, out_file, pc>>
modeVars == <<PADDING_MODE, UPSAMPLE_MODE, instances, last_forward>>

treeVars == <<tree_args, tree, tree_calls, tree_ret>>
genVars == <<gen_args, gen_in, gen, gpc, gen_err, fwd_out, level_i, out_feats,
            dla_layers, dla_out, dla_i, ida_i, result>>
nonCkptVars == <<modeVars, treeVars, genVars>>
nonModeVars == <<ckptVars, treeVars, genVars>>
nonTreeVars == <<ckptVars, modeVars, genVars>>
nonGenVars == <<ckptVars, treeVars>>

vars == <<ckpt_file, x, state_dict, new_state_dict, out_file, pc,
          PADDING_MODE, UPSAMPLE_MODE, instances, last_forward,
          tree_args, tree, tree_calls, tree_ret,
          gen_args, gen_in, gen, gpc, gen_err, fwd_out, level_i, out_feats,
          dla_layers, dla_out, dla_i, ida_i, result>>

(***************************************************************************)
(* Strings.  A parameter name is a sequence of tokens.  The token M stands *)
(* for the 25 characters  momentum_encoder.module.0 ; DOT is one '.' and   *)
(* the other tokens are single characters or words that contain none of    *)
(* M's characters sequence, so that substring search and replacement over  *)
(* tokens coincide with Python's over characters (M has no proper border:  *)
(* it ends in '0' and holds no other '0').                                 *)
(***************************************************************************)
M == "momentum_encoder.module.0"
DOT == "."
NETG == "netG"

\* The literal 'momentum_encoder.module.0' of the filter (line 14).
FILTER_STR == <<M>>
\* The literal 'momentum_encoder.module.0.' that is replaced (line 13).
OLD_STR == <<M, DOT>>
\* The literal 'netG.' (line 13).
NEW_STR == <<NETG, DOT>>

\* Tokens that input parameter names are drawn from.
Tokens == {M, DOT, "w"}

\* Bounds of the enumerated inputs.
MaxKeyLen == 2
MaxEntries == 2

\* Python's  `sub in s`.
Contains(s, sub) ==
    \E i \in 1..(Len(s) - Len(sub) + 1) : SubSeq(s, i, i + Len(sub) - 1) = sub

\* Python's  s.startswith(p).
StartsWith(s, p) == Len(s) >= Len(p) /\ SubSeq(s, 1, Len(p)) = p

\* Python's  s.replace(old, new): every non-overlapping occurrence, found
\* left to right, is replaced.
RECURSIVE Replace(_, _, _)
Replace(s, old, new) ==
    IF Len(s) < Len(old) THEN s
    ELSE IF SubSeq(s, 1, Len(old)) = old
         THEN new \o Replace(SubSeq(s, Len(old) + 1, Len(s)), old, new)
         ELSE <<Head(s)>> \o Replace(Tail(s), old, new)

(***************************************************************************)
(* Python dicts.  The top-level checkpoint is a function on its keys; a    *)
(* state_dict is the sequence of its entries [k, v] in insertion order,    *)
(* with distinct keys.                                                     *)
(***************************************************************************)
NoFile == <<>>
None == "None"

\* d[k] = v on an insertion-ordered dict: an existing key keeps its place.
OrderedSet(d, k, v) ==
    IF \E i \in 1..Len(d) : d[i].k = k
    THEN [i \in 1..Len(d) |-> IF d[i].k = k THEN [k |-> k, v |-> v] ELSE d[i]]
    ELSE Append(d, [k |-> k, v |-> v])

\* {k.replace(OLD, NEW): v for k, v in sd.items() if FILTER in k}
RECURSIVE ComprehensionFrom(_, _)
ComprehensionFrom(sd, acc) ==
    IF sd = <<>> THEN acc
    ELSE LET e == Head(sd)
         IN ComprehensionFrom(Tail(sd),
                IF Contains(e.k, FILTER_STR)
                THEN OrderedSet(acc, Replace(e.k, OLD_STR, NEW_STR), e.v)
                ELSE acc)

NewStateDict(sd) == ComprehensionFrom(sd, <<>>)

\* `del d[k]` raises KeyError when k is not a key of d.
DelRaisesMut(d, k) == FALSE
DelRaises(d, k) == k \notin DOMAIN d

\* d without key k.
DelItem(d, k) == [kk \in (DOMAIN d) \ {k} |-> d[kk]]

\* d[k] = v on the top-level dict.
SetItemMut(d, k, v) == [kk \in {k} |-> v]
SetItem(d, k, v) == [kk \in (DOMAIN d) \cup {k} |-> IF kk = k THEN v ELSE d[kk]]

\* The keys the script deletes, in the order of lines 7..10.
Deleted == <<"meta", "message_hub", "optimizer", "param_schedulers">>
DeletedSet == {Deleted[i] : i \in 1..Len(Deleted)}
TopKeys == DeletedSet \cup {"state_dict", "epoch"}

\* ---- enumerated inputs ----
KeyStrings == UNION {[1..n -> Tokens] : n \in 1..MaxKeyLen}

\* An ordered state dict with the keys ks (distinct); entry i holds tensor i.
StateDictOf(ks) == [i \in 1..Len(ks) |-> [k |-> ks[i], v |-> i]]
Distinct(ks) == \A i, j \in 1..Len(ks) : i # j => ks[i] # ks[j]

\* A checkpoint with top-level keys `present`; state_dict (when present) is sd
\* and every other value is the key's own payload.
Payload(k) == <<"payload", k>>
Checkpoint(present, sd) ==
    [k \in present |-> IF k = "state_dict" THEN sd ELSE Payload(k)]

Required == DeletedSet \cup {"state_dict"}

\* Inputs: every checkpoint that holds all the keys the script touches (with
\* or without a further key, and with every enumerated state_dict), and every
\* checkpoint that lacks some of them (with the state_dicts of at most one
\* entry, or with no state_dict at all).
IsInput(present, ks) ==
    /\ Distinct(ks)
    /\ ~(Required \subseteq present) => Len(ks) <= 1
    /\ "state_dict" \notin present => ks = <<>>

(***************************************************************************)
(* The script, statement by statement.                                     *)
(***************************************************************************)
CkptIdle ==
    /\ ckpt_file = None /\ x = None /\ state_dict = None
    /\ new_state_dict = None /\ out_file = NoFile /\ pc = "idle"

\* The module globals as the import of style_transfer_vsa_v4.py leaves them
\* (lines 54 and 60), and no instance constructed.
ModesIdle ==
    /\ PADDING_MODE = "reflect"
    /\ UPSAMPLE_MODE = "nearest"
    /\ instances = <<>>
    /\ last_forward = <<>>

\* No Tree under study.
TreeIdle ==
    /\ tree_args = None
    /\ tree = <<>>
    /\ tree_calls = 0
    /\ tree_ret = <<>>

\* No VSGenerator run under study.
GenIdle ==
    /\ gen_args = None /\ gen_in = None /\ gen = <<>> /\ gpc = "idle"
    /\ gen_err = "" /\ fwd_out = None /\ level_i = 0 /\ out_feats = <<>>
    /\ dla_layers = <<>> /\ dla_out = <<>> /\ dla_i = 0 /\ ida_i = 0
    /\ result = <<>>

CkptInit ==
    /\ ModesIdle
    /\ TreeIdle
    /\ GenIdle
    /\ \E present \in SUBSET TopKeys, n \in 0..MaxEntries :
         \E ks \in [1..n -> KeyStrings] :
            /\ IsInput(present, ks)
            /\ ckpt_file = Checkpoint(present, StateDictOf(ks))
    /\ x = None
    /\ state_dict = None
    /\ new_state_dict = None
    /\ out_file = NoFile
    /\ pc = "load"

\* line 5: x = torch.load(CKPT_PATH, map_location='cpu')
Load ==
    /\ pc = "load"
    /\ x' = ckpt_file
    /\ pc' = "del_1"
    /\ UNCHANGED <<ckpt_file, state_dict, new_state_dict, out_file>>
    /\ UNCHANGED nonCkptVars

\* lines 7..10: del x[Deleted[i]]
Del(i) ==
    /\ pc = "del_" \o ToString(i)
    /\ IF DelRaises(x, Deleted[i])
       THEN /\ pc' = "KeyError"
            /\ x' = x
       ELSE /\ x' = DelItem(x, Deleted[i])
            /\ pc' = IF i < Len(Deleted) THEN "del_" \o ToString(i + 1)
                     ELSE "get_state_dict"
    /\ UNCHANGED <<ckpt_file, state_dict, new_state_dict, out_file>>
    /\ UNCHANGED nonCkptVars

DelMeta == Del(1)
DelMessageHub == Del(2)
DelOptimizer == Del(3)
DelParamSchedulers == Del(4)

\* line 12: state_dict = x['state_dict']
GetStateDict ==
    /\ pc = "get_state_dict"
    /\ IF "state_dict" \in DOMAIN x
       THEN /\ state_dict' = x["state_dict"]
            /\ pc' = "comprehension"
       ELSE /\ state_dict' = state_dict
            /\ pc' = "KeyError"
    /\ UNCHANGED <<ckpt_file, x, new_state_dict, out_file>>
    /\ UNCHANGED nonCkptVars

\* lines 13..14: new_state_dict = {...}
Comprehension ==
    /\ pc = "comprehension"
    /\ new_state_dict' = NewStateDict(state_dict)
    /\ pc' = "set_state_dict"
    /\ UNCHANGED <<ckpt_file, x, state_dict, out_file>>
    /\ UNCHANGED nonCkptVars

\* line 15: x['state_dict'] = new_state_dict
SetStateDict ==
    /\ pc = "set_state_dict"
    /\ x' = SetItem(x, "state_dict", new_state_dict)
    /\ pc' = "save"
    /\ UNCHANGED <<ckpt_file, state_dict, new_state_dict, out_file>>
    /\ UNCHANGED nonCkptVars

\* line 16: torch.save(x, OUT_PATH)
Save ==
    /\ pc = "save"
    /\ out_file' = <<x>>
    /\ pc' = "done"
    /\ UNCHANGED <<ckpt_file, x, state_dict, new_state_dict>>
    /\ UNCHANGED nonCkptVars

CkptNext ==
    \/ Load
    \/ DelMeta
    \/ DelMessageHub
    \/ DelOptimizer
    \/ DelParamSchedulers
    \/ GetStateDict
    \/ Comprehension
    \/ SetStateDict
    \/ Save

SpecCkpt == CkptInit /\ [][CkptNext]_vars

Written == out_file # NoFile
Saved == out_file[1]
Terminated == pc \in {"done", "KeyError"}
EntrySet(sd) == {sd[i] : i \in 1..Len(sd)}

\* C1 (as claimed): once the output is written, its state_dict holds exactly
\* one entry per input entry whose name starts with
\* 'momentum_encoder.module.0.', keyed by the name with that leading prefix
\* replaced by 'netG.' and carrying the same value, and nothing else.
C1_PrefixImage(sd) ==
    {[k |-> NEW_STR \o SubSeq(e.k, Len(OLD_STR) + 1, Len(e.k)), v |-> e.v] :
        e \in {e \in EntrySet(sd) : StartsWith(e.k, OLD_STR)}}
C1_OutputIsPrefixImage ==
    Written =>
        /\ EntrySet(Saved["state_dict"]) = C1_PrefixImage(ckpt_file["state_dict"])
        /\ Len(Saved["state_dict"]) =
              Cardinality({e \in EntrySet(ckpt_file["state_dict"]) :
                              StartsWith(e.k, OLD_STR)})

\* C2: the saved checkpoint's top-level keys are the input's minus the four
\* deleted ones; state_dict is the mapping computed by lines 13..14 and every
\* other remaining key keeps its input value.
C2_TopLevelFrame ==
    Written =>
        /\ DOMAIN Saved = (DOMAIN ckpt_file) \ DeletedSet
        /\ \A k \in (DOMAIN Saved) \ {"state_dict"} : Saved[k] = ckpt_file[k]
        /\ Saved["state_dict"] = NewStateDict(ckpt_file["state_dict"])
        /\ \A e \in EntrySet(Saved["state_dict"]) :
              \E f \in EntrySet(ckpt_file["state_dict"]) : f.v = e.v

\* C2 witness: a checkpoint with a further top-level key and two parameters,
\* one kept and one dropped, has been saved.
C2_Witness ==
    /\ Written
    /\ "epoch" \in DOMAIN Saved
    /\ Len(ckpt_file["state_dict"]) = 2
    /\ Len(Saved["state_dict"]) = 1

\* C3: when one of the five keys is absent from the loaded checkpoint, nothing
\* is ever written, the save step is never reached, and the run can only end
\* in KeyError.
C3_MissingKeyFails ==
    ~(Required \subseteq DOMAIN ckpt_file) =>
        /\ ~Written
        /\ pc \notin {"save", "done"}
        /\ Terminated => pc = "KeyError"

\* C3 witness: only state_dict is absent; the four deletions succeeded and
\* line 12 raised.
C3_Witness ==
    /\ pc = "KeyError"
    /\ DOMAIN x = {"epoch"}
    /\ DOMAIN ckpt_file = DeletedSet \cup {"epoch"}
    /\ ~Written

(***************************************************************************)
(* style_transfer_vsa_v4.py: the process-wide mode globals.                *)
(***************************************************************************)
PaddingModes == {"reflect", "zeros"}
UpsampleModes == {"nearest", "bilinear"}

\* Bound on the number of instances constructed in one process.
MaxInstances == 3

\* nn.Conv2d(..., padding_mode=PADDING_MODE) (conv3x3, conv3x3_smooth,
\* ConvBNRelu, last_layer): the layer stores the value the global has when
\* the layer is constructed.
ConvPaddingMode(global_at_build, global_now) == global_at_build

\* F.interpolate(x, scale_factor=2.0, mode=UPSAMPLE_MODE) in Upsample.forward:
\* the global is read when forward runs; Upsample.__init__ stores no mode.
InterpolateMode(global_at_build, global_now) == global_now

\* VSGenerator.__init__ (lines 330..384 as far as the modes go): the globals
\* are assigned first, then every layer of the instance is built.
Construct(padding_mode, upsample_mode) ==
    /\ Len(instances) < MaxInstances
    /\ PADDING_MODE' = padding_mode
    /\ UPSAMPLE_MODE' = upsample_mode
    /\ instances' = Append(instances,
           [padding_mode |-> padding_mode,
            upsample_mode |-> upsample_mode,
            built_padding |-> PADDING_MODE',
            built_upsample |-> UPSAMPLE_MODE'])
    /\ UNCHANGED last_forward
    /\ UNCHANGED nonModeVars

\* VSGenerator.forward of instance i: every convolution pads with the mode it
\* stored, every Upsample interpolates with the global as it is now.
Forward(i) ==
    /\ i \in 1..Len(instances)
    /\ last_forward' =
          <<[inst |-> i,
             padding_mode |-> ConvPaddingMode(instances[i].built_padding, PADDING_MODE),
             upsample_mode |-> InterpolateMode(instances[i].built_upsample, UPSAMPLE_MODE)]>>
    /\ UNCHANGED <<PADDING_MODE, UPSAMPLE_MODE, instances>>
    /\ UNCHANGED nonModeVars

ModesInit == ModesIdle /\ CkptIdle /\ TreeIdle /\ GenIdle

ConstructAny == \E pm \in PaddingModes, um \in UpsampleModes : Construct(pm, um)
ForwardAny == \E i \in 1..MaxInstances : Forward(i)

ModesNext ==
    \/ ConstructAny
    \/ ForwardAny

SpecModes == ModesInit /\ [][ModesNext]_vars

\* C4 (as claimed): every forward pass of an instance uses the padding mode
\* and the upsample mode passed to that instance's own constructor, whatever
\* other instances were constructed in between.
C4_OwnModesForLife ==
    \A k \in 1..Len(last_forward) :
        LET r == last_forward[k]
        IN /\ r.padding_mode = instances[r.inst].padding_mode
           /\ r.upsample_mode = instances[r.inst].upsample_mode

(***************************************************************************)
(* style_transfer_vsa_v4.py: tensors and layers.                           *)
(*                                                                         *)
(* A tensor is its shape (n, c, h, w) and a term t that names how it was   *)
(* computed; err is the exception raised while computing it ("" if none).  *)
(* A term is <<operation, index, arguments>>, where each argument is named *)
(* by its own operation and index only.                                    *)
(***************************************************************************)
OkT(n, c, h, w, t) == [err |-> "", n |-> n, c |-> c, h |-> h, w |-> w, t |-> t]
ErrT(e) == [err |-> e, n |-> 0, c |-> 0, h |-> 0, w |-> 0, t |-> <<>>]
Leaf(t) == <<t[1], t[2], <<>>>>
Term(op, idx, args) == <<op, idx, [i \in 1..Len(args) |-> Leaf(args[i])]>>
Shape(t) == <<t.c, t.h, t.w>>

\* The first exception raised by a sequence of constructions ("" if none).
RECURSIVE FirstErr(_)
FirstErr(errs) ==
    IF errs = <<>> THEN ""
    ELSE IF Head(errs) # "" THEN Head(errs) ELSE FirstErr(Tail(errs))

RECURSIVE Pow2(_)
Pow2(e) == IF e = 0 THEN 1 ELSE 2 * Pow2(e - 1)

\* round(log2(sqrt(2 * num_channels))) (line 16): the nearest integer m to
\* log2(2C)/2, i.e. 4^(m-1) < C < 4^m; at C = 4^k (a tie, k + 0.5) Python's
\* round goes to the even neighbour, except C = 1 where the float value is
\* 0.5000000000000001 and rounds up.
RECURSIVE RoundHalfLog2(_, _)
RoundHalfLog2(C, m) ==
    IF C < Pow2(2 * m) THEN m
    ELSE IF C = Pow2(2 * m)
         THEN (IF m = 0 THEN 1 ELSE IF m % 2 = 0 THEN m ELSE m + 1)
         ELSE RoundHalfLog2(C, m + 1)

\* GroupNorm.__init__ (lines 13..18): num_groups.
GroupNormGroups(num_channels) == Pow2(RoundHalfLog2(num_channels, 0))

\* GroupNorm8.__init__ (lines 21..26): num_groups.
GroupNorm8Groups(num_channels) ==
    IF num_channels \div 8 > 8 THEN num_channels \div 8 ELSE 8

NormNames == {"batch", "instance", "group", "group8", "none"}

\* get_norm_layer(norm_name)(num_channels): the layer, or the exception its
\* construction raises.  nn.GroupNorm raises ValueError unless num_groups
\* divides num_channels; norm_layer is None for 'none', and calling it raises
\* TypeError.
NormLayer(norm_name, num_channels) ==
    CASE norm_name = "batch" ->
           [err |-> "", kind |-> "BatchNorm2d", c |-> num_channels, groups |-> 0]
      [] norm_name = "instance" ->
           [err |-> "", kind |-> "InstanceNorm2d", c |-> num_channels, groups |-> 0]
      [] norm_name = "group" ->
           [err |-> IF num_channels % GroupNormGroups(num_channels) = 0
                    THEN "" ELSE "ValueError",
            kind |-> "GroupNorm", c |-> num_channels,
            groups |-> GroupNormGroups(num_channels)]
      [] norm_name = "group8" ->
           [err |-> IF num_channels % GroupNorm8Groups(num_channels) = 0
                    THEN "" ELSE "ValueError",
            kind |-> "GroupNorm", c |-> num_channels,
            groups |-> GroupNorm8Groups(num_channels)]
      [] norm_name = "none" ->
           [err |-> "TypeError", kind |-> "None", c |-> num_channels, groups |-> 0]

\* The normalization layers keep the shape.  In training mode (the mode a
\* freshly constructed module is in) BatchNorm2d needs more than one value
\* per channel and InstanceNorm2d more than one spatial element.
NormForward(norm, t) ==
    IF t.err # "" THEN t
    ELSE IF norm.kind = "BatchNorm2d" /\ t.n * t.h * t.w <= 1 THEN ErrT("ValueError")
    ELSE IF norm.kind = "InstanceNorm2d" /\ t.h * t.w <= 1 THEN ErrT("ValueError")
    ELSE IF norm.kind \in {"BatchNorm2d", "GroupNorm"} /\ t.c # norm.c
         THEN ErrT("RuntimeError")
    ELSE t

\* nn.Conv2d(in, out, kernel_size, stride, padding, padding_mode, groups).
Conv2d(in_c, out_c, k, stride, padding, padding_mode, groups) ==
    [err |-> IF in_c % groups = 0 /\ out_c % groups = 0 THEN "" ELSE "ValueError",
     in_c |-> in_c, out_c |-> out_c, k |-> k, stride |-> stride,
     padding |-> padding, padding_mode |-> padding_mode, groups |-> groups]

\* Output extent of a convolution or pooling window along one axis.
ConvExtent(size, k, stride, padding) == (size + 2 * padding - k) \div stride + 1

\* Conv2d.forward: the input must have in_c channels; non-zero reflect
\* padding must be smaller than the input; the padded input must hold the
\* kernel.
ConvForward(conv, t) ==
    IF t.err # "" THEN t
    ELSE IF t.c # conv.in_c THEN ErrT("RuntimeError")
    ELSE IF /\ conv.padding > 0
            /\ conv.padding_mode = "reflect"
            /\ (conv.padding >= t.h \/ conv.padding >= t.w) THEN ErrT("RuntimeError")
    ELSE IF t.h + 2 * conv.padding < conv.k \/ t.w + 2 * conv.padding < conv.k
         THEN ErrT("RuntimeError")
    ELSE OkT(t.n, conv.out_c,
             ConvExtent(t.h, conv.k, conv.stride, conv.padding),
             ConvExtent(t.w, conv.k, conv.stride, conv.padding), t.t)

\* conv3x3 (lines 63..73) with use_padding=True, groups=1; reads PADDING_MODE.
conv3x3(in_planes, out_planes, stride, padding_mode) ==
    Conv2d(in_planes, out_planes, 3, stride, 1, padding_mode, 1)

\* conv3x3_smooth (lines 75..88) as Upsample calls it.
conv3x3_smooth(in_planes, out_planes, stride, groups, padding_mode) ==
    Conv2d(in_planes, out_planes, 3, stride, 3 \div 2, padding_mode, groups)

\* nn.MaxPool2d / nn.AvgPool2d (kernel, stride=kernel), no padding.
PoolForward(k, t) ==
    IF t.err # "" THEN t
    ELSE IF t.h < k \/ t.w < k THEN ErrT("RuntimeError")
    ELSE OkT(t.n, t.c, ConvExtent(t.h, k, k, 0), ConvExtent(t.w, k, k, 0),
             Term("pool", <<k>>, <<t.t>>))

\* ConvBNRelu.__init__ (lines 100..120).
ConvBNRelu(in_channels, out_channels, kernel_size, stride, norm_name, padding_mode) ==
    LET conv == Conv2d(in_channels, out_channels, kernel_size, stride,
                       kernel_size \div 2, padding_mode, 1)
        norm == NormLayer(norm_name, out_channels)
    IN [err |-> FirstErr(<<conv.err, norm.err>>), conv |-> conv, norm |-> norm]

\* ConvBNRelu.forward (lines 122..123): conv, norm, activation.
ConvBNReluForward(m, t) == NormForward(m.norm, ConvForward(m.conv, t))

\* `out += shortcut`: shortcut must broadcast to out's shape.
Broadcasts(sc, out) ==
    /\ sc.n \in {1, out.n}
    /\ sc.c \in {1, out.c}
    /\ sc.h \in {1, out.h}
    /\ sc.w \in {1, out.w}

\* ResidualBlock.__init__ (lines 127..138).
ResidualBlock(in_channels, out_channels, stride, norm_name, padding_mode) ==
    LET conv1 == conv3x3(in_channels, out_channels, stride, padding_mode)
        bn1 == NormLayer(norm_name, out_channels)
        conv2 == conv3x3(out_channels, out_channels, 1, padding_mode)
        bn2 == NormLayer(norm_name, out_channels)
    IN [err |-> FirstErr(<<conv1.err, bn1.err, conv2.err, bn2.err>>),
        conv1 |-> conv1, bn1 |-> bn1, conv2 |-> conv2, bn2 |-> bn2]

\* The main path of ResidualBlock.forward (lines 143..147).
ResidualMain(m, xin) ==
    NormForward(m.bn2, ConvForward(m.conv2, NormForward(m.bn1, ConvForward(m.conv1, xin))))

\* ResidualBlock.forward (lines 140..151); shortcut is a sequence: <<>> for
\* None, <<s>> for the tensor s.
ResidualBlockForward(m, xin, shortcut) ==
    LET sc == IF shortcut = <<>> THEN xin ELSE shortcut[1]
        out == ResidualMain(m, xin)
    IN IF out.err # "" THEN out
       ELSE IF ~Broadcasts(sc, out) THEN ErrT("RuntimeError")
       ELSE [out EXCEPT !.t = Term("block", <<>>, <<xin.t, sc.t>>)]

\* Root.__init__ (lines 155..161).
Root(in_channels, out_channels, kernel_size, shortcut, norm_name) ==
    LET conv == Conv2d(in_channels, out_channels, 1, 1, (kernel_size - 1) \div 2,
                       "zeros", 1)
        bn == NormLayer(norm_name, out_channels)
    IN [err |-> FirstErr(<<conv.err, bn.err>>), conv |-> conv, bn |-> bn,
        shortcut |-> shortcut]

\* torch.cat(xs, 1): every tensor must agree in n, h and w.
RECURSIVE SumC(_)
SumC(xs) == IF xs = <<>> THEN 0 ELSE Head(xs).c + SumC(Tail(xs))

Cat(xs) ==
    IF \E i \in 1..Len(xs) : xs[i].err # ""
    THEN ErrT(FirstErr([i \in 1..Len(xs) |-> xs[i].err]))
    ELSE IF \E i \in 1..Len(xs) :
           xs[i].n # xs[1].n \/ xs[i].h # xs[1].h \/ xs[i].w # xs[1].w
    THEN ErrT("RuntimeError")
    ELSE OkT(xs[1].n, SumC(xs), xs[1].h, xs[1].w,
             Term("cat", <<>>, [i \in 1..Len(xs) |-> xs[i].t]))

\* Root.forward (lines 163..170).
RootForward(m, x_children) ==
    LET y == NormForward(m.bn, ConvForward(m.conv, Cat(x_children)))
    IN IF y.err # "" THEN y
       ELSE IF m.shortcut /\ ~Broadcasts(x_children[1], y) THEN ErrT("RuntimeError")
       ELSE [y EXCEPT !.t = Term("root", <<>>, [i \in 1..Len(x_children) |-> x_children[i].t])]

(***************************************************************************)
(* Tree (lines 173..222).  pool_layer only chooses between max and average *)
(* pooling, which have the same shape arithmetic; `block` is always        *)
(* ResidualBlock.                                                          *)
(***************************************************************************)
\* Defaults of Tree.__init__ that no caller overrides (line 175).
ROOT_KERNEL_SIZE == 1
ROOT_SHORTCUT == FALSE

\* root_dim handed to the nested tree2 (line 200).
Tree2RootDimMut(root_dim, out_channels) == root_dim
Tree2RootDim(root_dim, out_channels) == root_dim + out_channels

\* root_dim after lines 178..181.
RootDim(root_dim, in_channels, out_channels, level_root) ==
    LET rd == IF root_dim = 0 THEN 2 * out_channels ELSE root_dim
    IN IF level_root THEN rd + in_channels ELSE rd

NoModule == [err |-> "", none |-> TRUE]

\* Tree.__init__.  With levels < 1 the else branch recurses on levels - 1
\* without ever reaching levels == 1: Python raises RecursionError.
RECURSIVE Tree(_, _, _, _, _, _, _, _)
Tree(levels, in_channels, out_channels, stride, level_root, root_dim, norm_name, padding_mode) ==
    LET rd == RootDim(root_dim, in_channels, out_channels, level_root)
        base == [levels |-> levels, level_root |-> level_root, root_dim |-> rd,
                 stride |-> stride, in_c |-> in_channels, out_c |-> out_channels]
    IN IF levels < 1
       THEN [err |-> "RecursionError"] @@ base
       ELSE IF levels = 1
       THEN LET tree1 == ResidualBlock(in_channels, out_channels, stride,
                                       norm_name, padding_mode)
                tree2 == ResidualBlock(out_channels, out_channels, 1,
                                       norm_name, padding_mode)
                project ==
                    IF in_channels # out_channels
                    THEN LET conv == Conv2d(in_channels, out_channels, 1, 1, 0, "zeros", 1)
                             norm == NormLayer(norm_name, out_channels)
                         IN [err |-> FirstErr(<<conv.err, norm.err>>), none |-> FALSE,
                             conv |-> conv, norm |-> norm]
                    ELSE NoModule
                root == Root(rd, out_channels, ROOT_KERNEL_SIZE, ROOT_SHORTCUT, norm_name)
            IN [err |-> FirstErr(<<tree1.err, tree2.err, project.err, root.err>>),
                tree1 |-> tree1, tree2 |-> tree2, project |-> project,
                root |-> root] @@ base
       ELSE LET tree1 == Tree(levels - 1, in_channels, out_channels, stride, FALSE, 0,
                              norm_name, padding_mode)
                tree2 == Tree(levels - 1, out_channels, out_channels, 1, FALSE,
                              Tree2RootDim(rd, out_channels), norm_name, padding_mode)
            IN [err |-> FirstErr(<<tree1.err, tree2.err>>),
                tree1 |-> tree1, tree2 |-> tree2, project |-> NoModule,
                root |-> NoModule] @@ base

\* The `children` argument: None, or a list.  A list entry is the tensor x
\* together with who appended it: the `levels` of the appending Tree and
\* whether it is that Tree's `bottom` or its tree1 output `x1`.
NoChildren == [none |-> TRUE, items |-> <<>>]
ChildList(items) == [none |-> FALSE, items |-> items]
ChildTensors(items) == [i \in 1..Len(items) |-> items[i].x]

\* children.append(entry) (lines 214 and 220).
ChildrenAppendMut(children, entry) == <<entry>> \o children
ChildrenAppend(children, entry) == Append(children, entry)

\* The sequence Root.forward is called with (line 218).
RootInputs(x2, x1, children) == <<x2, x1>> \o ChildTensors(children)

\* bottom = self.downsample(x) (line 211).
TreeBottom(self, xin) ==
    IF self.stride > 1 THEN PoolForward(self.stride, xin) ELSE xin

\* shortcut = self.project(bottom) (line 212).
TreeShortcut(self, xin) ==
    LET bottom == TreeBottom(self, xin)
    IN IF self.project.none THEN bottom
       ELSE NormForward(self.project.norm, ConvForward(self.project.conv, bottom))

\* The Tree whose tree1 is the first residual block that the input of the
\* stage reaches (lines 215, 188, 193): tree1 of tree1 of ... down to levels 1.
RECURSIVE FirstBlockTree(_)
FirstBlockTree(self) ==
    IF self.levels <= 1 THEN self ELSE FirstBlockTree(self.tree1)

\* Tree.forward (lines 208..222).  The result is the returned tensor (or the
\* exception) and the calls of Root.forward that were made, in order; a Root
\* call is recorded with the in_channels of the Root's convolution, the
\* sequence it was handed and the children list as it stood.
RECURSIVE TreeForward(_, _, _)
TreeForward(self, xin, children_arg) ==
    LET children0 == IF children_arg.none THEN <<>> ELSE children_arg.items
        bottom == TreeBottom(self, xin)
        shortcut == TreeShortcut(self, xin)
        children1 ==
            IF self.level_root
            THEN ChildrenAppend(children0,
                     [x |-> bottom, by |-> self.levels, kind |-> "bottom"])
            ELSE children0
    IN IF bottom.err # "" THEN [out |-> bottom, roots |-> <<>>]
       ELSE IF shortcut.err # "" THEN [out |-> shortcut, roots |-> <<>>]
       ELSE IF self.levels = 1
       THEN LET x1 == ResidualBlockForward(self.tree1, xin, <<shortcut>>)
                x2 == ResidualBlockForward(self.tree2, x1, <<>>)
                call == [dim |-> self.root.conv.in_c,
                         inputs |-> RootInputs(x2, x1, children1),
                         children |-> children1]
            IN IF x1.err # "" THEN [out |-> x1, roots |-> <<>>]
               ELSE IF x2.err # "" THEN [out |-> x2, roots |-> <<>>]
               ELSE [out |-> RootForward(self.root, call.inputs), roots |-> <<call>>]
       ELSE LET r1 == TreeForward(self.tree1, xin, NoChildren)
                children2 ==
                    ChildrenAppend(children1,
                        [x |-> r1.out, by |-> self.levels, kind |-> "x1"])
                r2 == TreeForward(self.tree2, r1.out, ChildList(children2))
            IN IF r1.out.err # "" THEN r1
               ELSE [out |-> r2.out, roots |-> r1.roots \o r2.roots]

(***************************************************************************)
(* Upsample, IDAUp, DLAUp, DLAHead (lines 225..312).                       *)
(***************************************************************************)
CONCAT_CHANNELS == TRUE

Reverse(seq) == [i \in 1..Len(seq) |-> seq[Len(seq) + 1 - i]]

\* Upsample.__init__ (lines 226..234), with_conv=True.
Upsample(in_channels, padding_mode) ==
    LET conv == conv3x3_smooth(in_channels, in_channels, 1, in_channels, padding_mode)
    IN [err |-> conv.err, conv |-> conv]

\* Upsample.forward (lines 236..240): F.interpolate(scale_factor=2.0) in the
\* mode the global UPSAMPLE_MODE holds now (every mode doubles h and w), then
\* the smoothing convolution.
UpsampleForward(m, t, upsample_mode) ==
    IF t.err # "" THEN t
    ELSE ConvForward(m.conv, OkT(t.n, t.c, 2 * t.h, 2 * t.w,
                                 Term("interpolate", <<upsample_mode>>, <<t.t>>)))

\* One iteration of the loop of IDAUp.__init__ (lines 247..258).
IDAUpStep(c, o, norm_name, padding_mode) ==
    LET proj == ConvBNRelu(c, o, 3, 1, norm_name, padding_mode)
        node == IF CONCAT_CHANNELS
                THEN ConvBNRelu(2 * o, o, 3, 1, norm_name, padding_mode)
                ELSE ConvBNRelu(o, o, 3, 1, norm_name, padding_mode)
        up == Upsample(o, padding_mode)
    IN [err |-> FirstErr(<<proj.err, node.err, up.err>>),
        proj |-> proj, node |-> node, up |-> up]

\* IDAUp.__init__ (lines 243..258); steps[i + 1] holds proj_i, up_i, node_i.
IDAUp(channels, norm_name, padding_mode) ==
    LET ch == Reverse(channels)
        steps == [i \in 1..(Len(ch) - 1) |->
                     IDAUpStep(ch[i], ch[i + 1], norm_name, padding_mode)]
    IN [err |-> FirstErr([i \in 1..Len(steps) |-> steps[i].err]),
        channels |-> ch, steps |-> steps]

\* The entry of `layers` that iteration i of IDAUp.forward reads (line 264)
\* and the entry it overwrites (line 267), as Python indices.
IdaSource(i) == i
IdaTargetMut(i) == i
IdaTarget(i) == i + 1

\* The value iteration i of IDAUp.forward (lines 262..269) computes from
\* a = layers[i] and b = layers[i + 1]; ida is the number of the IDAUp.
IdaFuse(step, ida, i, a, b, upsample_mode) ==
    LET upsampled == UpsampleForward(step.up, ConvBNReluForward(step.proj, a),
                                     upsample_mode)
        fused == IF CONCAT_CHANNELS
                 THEN ConvBNReluForward(step.node, Cat(<<upsampled, b>>))
                 ELSE IF upsampled.err # "" THEN upsampled
                 ELSE IF ~(Broadcasts(upsampled, b) \/ Broadcasts(b, upsampled))
                      THEN ErrT("RuntimeError")
                 ELSE ConvBNReluForward(step.node,
                          [upsampled EXCEPT !.n = IF b.n > @ THEN b.n ELSE @,
                                            !.c = IF b.c > @ THEN b.c ELSE @,
                                            !.h = IF b.h > @ THEN b.h ELSE @,
                                            !.w = IF b.w > @ THEN b.w ELSE @])
    IN IF fused.err # "" THEN fused
       ELSE [fused EXCEPT !.t = Term("node", <<ida, i>>, <<a.t, b.t>>)]

\* DLAUp.__init__ (lines 273..280); idas[i] is ida_i.
DLAUp(channels, norm_name, padding_mode) ==
    LET idas == [i \in 1..(Len(channels) - 1) |->
                    IDAUp(SubSeq(channels, 1, i + 1), norm_name, padding_mode)]
    IN [err |-> FirstErr([i \in 1..Len(idas) |-> idas[i].err]),
        channels |-> channels, idas |-> idas]

\* out.insert(0, layers[i]) (line 285).
InsertFrontMut(out, layer) == Append(out, layer)
InsertFront(out, layer) == <<layer>> \o out

\* DLAHead.__init__ (lines 295..309).
DLAHead(upsample_count, in_channels, head_channels, norm_name, padding_mode) ==
    LET ups == [i \in 1..upsample_count |-> Upsample(in_channels, padding_mode)]
        convs == [i \in 1..Len(head_channels) |->
                     ConvBNRelu(IF i = 1 THEN in_channels ELSE head_channels[i - 1],
                                head_channels[i], 3, 1, norm_name, padding_mode)]
    IN [err |-> FirstErr([i \in 1..Len(ups) |-> ups[i].err]
                         \o [i \in 1..Len(convs) |-> convs[i].err]),
        ups |-> ups, convs |-> convs]

(***************************************************************************)
(* VSGenerator (lines 315..421).                                           *)
(***************************************************************************)
\* round(math.log2(donwsample_size)) with donwsample_size = 2 (lines 345..347).
LAST_LEVEL == 1

\* VSGenerator._make_conv_level (lines 392..398).
MakeConvLevel(inplanes, planes, repeats, stride, norm_name, padding_mode) ==
    LET mods == [i \in 1..repeats |->
                    ConvBNRelu(IF i = 1 THEN inplanes ELSE planes, planes, 3,
                               IF i = 1 THEN stride ELSE 1, norm_name, padding_mode)]
    IN [err |-> FirstErr([i \in 1..Len(mods) |-> mods[i].err]),
        kind |-> "Sequential", mods |-> mods]

TreeLevel(m) == [err |-> m.err, kind |-> "Tree", m |-> m]

\* nn.Sequential.forward.
RECURSIVE SequentialForward(_, _)
SequentialForward(mods, t) ==
    IF mods = <<>> THEN t
    ELSE SequentialForward(Tail(mods), ConvBNReluForward(Head(mods), t))

\* module(out) for one entry of module_levels (line 404).
LevelForward(level, t) ==
    IF level.kind = "Sequential" THEN SequentialForward(level.mods, t)
    ELSE TreeForward(level.m, t, NoChildren).out

\* VSGenerator.__init__ (lines 336..384) with the arguments a; padding_mode is
\* the global PADDING_MODE as line 333 has just set it.  ida_channels = 0
\* stands for None.
VSGenerator(a, padding_mode) ==
    LET ch == a.channels
        lv == a.levels
        nn == a.norm_name
        base_layer == ConvBNRelu(a.input_channels, ch[1], 7, 1, nn, padding_mode)
        ida_channels == IF a.ida_channels = 0 THEN ch[LAST_LEVEL + 1] ELSE a.ida_channels
        last_level_mapper ==
            IF a.ida_channels = 0 THEN NoModule
            ELSE [none |-> FALSE] @@
                 ConvBNRelu(ch[LAST_LEVEL + 1], ida_channels, 3, 1, nn, padding_mode)
        level0 == MakeConvLevel(ch[1], ch[1], lv[1], 1, nn, padding_mode)
        level1 == MakeConvLevel(ch[1], ch[2], lv[2], 2, nn, padding_mode)
        level2 == TreeLevel(Tree(lv[3], ch[2], ch[3], 2, FALSE, 0, nn, padding_mode))
        level3 == TreeLevel(Tree(lv[4], ch[3], ch[4], 2, TRUE, 0, nn, padding_mode))
        level4 == TreeLevel(Tree(lv[5], ch[4], ch[5], 2, TRUE, 0, nn, padding_mode))
        level5 == TreeLevel(Tree(lv[6], ch[5], ch[6], 2, TRUE, 0, nn, padding_mode))
        module_levels == <<level0, level1, level2, level3, level4, level5>>
        dlaup == DLAUp(<<ida_channels>> \o SubSeq(ch, LAST_LEVEL + 2, Len(ch)),
                       nn, padding_mode)
        head == DLAHead(LAST_LEVEL, ida_channels, a.head_channels, nn, padding_mode)
        last_layer == Conv2d(a.head_channels[Len(a.head_channels)], a.output_channels,
                             3, 1, 1, padding_mode, 1)
    IN [err |-> FirstErr(<<base_layer.err, last_level_mapper.err>>
                         \o [i \in 1..6 |-> module_levels[i].err]
                         \o <<dlaup.err, head.err, last_layer.err>>),
        out_indices |-> a.out_indices,
        last_level |-> LAST_LEVEL,
        base_layer |-> base_layer,
        last_level_mapper |-> last_level_mapper,
        module_levels |-> module_levels,
        dlaup |-> dlaup]

\* seq[i] for a Python index i (negative indices count from the end); <<>>
\* when i is out of range (IndexError), <<v>> otherwise.
PyIndex(seq, i) ==
    IF 0 <= i /\ i < Len(seq) THEN <<seq[i + 1]>>
    ELSE IF -Len(seq) <= i /\ i < 0 THEN <<seq[Len(seq) + i + 1]>>
    ELSE <<>>

(***************************************************************************)
(* A Tree stage on its own: constructed once, then called repeatedly.      *)
(***************************************************************************)
\* Bounds of the enumerated Trees and inputs.
MaxTreeLevels == 3
MaxTreeChannels == 2
MaxTreeSize == 3
MaxTreeCalls == 2

\* The batch size of the inputs (line 427).
BATCH_SIZE == 2

\* The process state a Tree is built in: the globals as a VSGenerator
\* constructed before (with padding mode pm) left them.
AfterGenerator(pm) ==
    /\ PADDING_MODE = pm
    /\ UPSAMPLE_MODE = "nearest"
    /\ instances = <<[padding_mode |-> pm, upsample_mode |-> "nearest",
                      built_padding |-> pm, built_upsample |-> "nearest"]>>
    /\ last_forward = <<>>

TreeInit ==
    /\ CkptIdle
    /\ GenIdle
    /\ \E pm \in PaddingModes : AfterGenerator(pm)
    /\ tree_args \in [levels : 0..MaxTreeLevels,
                      in_channels : 1..MaxTreeChannels,
                      out_channels : 1..MaxTreeChannels,
                      stride : {1, 2},
                      level_root : BOOLEAN,
                      norm_name : NormNames]
    /\ tree = <<>>
    /\ tree_calls = 0
    /\ tree_ret = <<>>

\* Tree(levels, block, in_channels, out_channels, stride, level_root=...,
\*      norm_layer=..., pool_layer=...) with root_dim left at its default 0.
TreeConstruct ==
    /\ tree = <<>>
    /\ tree' = <<Tree(tree_args.levels, tree_args.in_channels,
                      tree_args.out_channels, tree_args.stride,
                      tree_args.level_root, 0, tree_args.norm_name,
                      PADDING_MODE)>>
    /\ UNCHANGED <<tree_args, tree_calls, tree_ret>>
    /\ UNCHANGED nonTreeVars

\* tree(x) on a fresh input of shape (BATCH_SIZE, in_channels, h, w);
\* shortcut and children are left at their default None.
TreeCall(h, w) ==
    /\ tree # <<>>
    /\ tree[1].err = ""
    /\ tree_calls < MaxTreeCalls
    /\ tree_calls' = tree_calls + 1
    /\ tree_ret' = <<TreeForward(tree[1],
                        OkT(BATCH_SIZE, tree_args.in_channels, h, w,
                            Term("input", <<tree_calls'>>, <<>>)),
                        NoChildren)>>
    /\ UNCHANGED <<tree_args, tree>>
    /\ UNCHANGED nonTreeVars

TreeCallAny == \E h \in 1..MaxTreeSize, w \in 1..MaxTreeSize : TreeCall(h, w)

TreeNext ==
    \/ TreeConstruct
    \/ TreeCallAny

SpecTree == TreeInit /\ [][TreeNext]_vars

\* Number of Root modules in a Tree of the given levels.
RootCount(levels) == Pow2(levels - 1)

\* The latest forward call ran through to the final Root fusion.
ReachedFinalRoot ==
    /\ tree_ret # <<>>
    /\ Len(tree_ret[1].roots) = RootCount(tree_args.levels)
FinalRoot == tree_ret[1].roots[Len(tree_ret[1].roots)]

\* The input tensor term of the latest call, and its `bottom`.
LatestInput == Term("input", <<tree_calls>>, <<>>)
LatestBottom ==
    IF tree_args.stride > 1 THEN Term("pool", <<tree_args.stride>>, <<LatestInput>>)
    ELSE LatestInput

\* C9: on every forward call the final Root is handed [tree2_output,
\* tree1_output] followed by the children in the order they were appended;
\* the children are appended by Trees of decreasing `levels` (the stage's own
\* bottom first when level_root is set, then one tree1 output per level from
\* the stage's levels down to 2), and all of them stem from this call's input.
C9_ChildrenOrder ==
    ReachedFinalRoot =>
        LET call == FinalRoot
            ch == call.children
            L == tree_args.levels
            lead == IF tree_args.level_root THEN 1 ELSE 0
        IN /\ Len(ch) = lead + (L - 1)
           /\ Len(call.inputs) = 2 + Len(ch)
           /\ call.inputs[1].t[1] = "block" /\ call.inputs[1].t[3][1] = Leaf(call.inputs[2].t)
           /\ \A i \in 1..Len(ch) : call.inputs[2 + i] = ch[i].x
           /\ \A i \in 1..(Len(ch) - 1) : ch[i].by >= ch[i + 1].by
           /\ lead = 1 => ch[1].kind = "bottom" /\ ch[1].by = L /\ ch[1].x.t = LatestBottom
           /\ \A i \in 1..(L - 1) :
                 /\ ch[lead + i].kind = "x1"
                 /\ ch[lead + i].by = L - i + 1
           /\ L > 1 => ch[lead + 1].x.t[1] = "root"

\* C9 witness: the second call of a three-level, level-root Tree reached its
\* final Root.
C9_Witness ==
    /\ ReachedFinalRoot
    /\ tree_ret[1].out.err = ""
    /\ tree_args.levels = 3
    /\ tree_args.level_root
    /\ tree_calls = 2

\* C10: at every Root reached during forward, the channels of the tensors it
\* concatenates add up to the in_channels its 1x1 convolution was built with.
C10_RootChannels ==
    \A k \in 1..Len(tree_ret) :
        \A i \in 1..Len(tree_ret[k].roots) :
            SumC(tree_ret[k].roots[i].inputs) = tree_ret[k].roots[i].dim

\* C10 witness: a three-level, level-root Tree with in_channels # out_channels
\* ran all four of its Roots.
C10_Witness ==
    /\ ReachedFinalRoot
    /\ tree_ret[1].out.err = ""
    /\ tree_args.levels = 3
    /\ tree_args.level_root
    /\ tree_args.in_channels # tree_args.out_channels
    /\ Len(tree_ret[1].roots) = 4


(***************************************************************************)
(* One VSGenerator: construction, then one forward pass, statement by      *)
(* statement (lines 316..421, 260..291).                                   *)
(***************************************************************************)
MaxGenChannels == 2
MaxGenLevels == 2
MaxOutIndices == 2

\* Heights and widths of the input of forward.
GenSizes == {32, 64, 65, 96}

\* Values of ida_channels besides the default None (0); 64 is line 425's.
IdaChoices == {0, 64}

\* The defaults of VSGenerator.__init__ (lines 317..328).
GenDefaults ==
    [input_channels |-> 3, output_channels |-> 3,
     channels |-> <<16, 32, 64, 128, 256, 512>>,
     head_channels |-> <<32, 16>>,
     levels |-> <<1, 1, 1, 1, 1, 1>>,
     ida_channels |-> 0,
     norm_name |-> "batch",
     upsample_mode |-> "nearest",
     padding_mode |-> "reflect",
     out_indices |-> <<-1>>]

\* Number of maps forward_features collects: stages last_level..5.
NumFeats == 6 - LAST_LEVEL

GenInit ==
    /\ CkptIdle
    /\ ModesIdle
    /\ TreeIdle
    /\ \/ \E nn \in NormNames, ida \in IdaChoices, h \in GenSizes, w \in GenSizes :
            /\ gen_args = [GenDefaults EXCEPT !.norm_name = nn, !.ida_channels = ida]
            /\ gen_in = <<h, w>>
       \/ \E chs \in [1..6 -> 1..MaxGenChannels], ida \in {0, MaxGenChannels} :
            /\ gen_args = [GenDefaults EXCEPT !.channels = chs, !.ida_channels = ida]
            /\ gen_in = <<64, 64>>
       \/ \E lvs \in [1..6 -> 0..MaxGenLevels] :
            /\ gen_args = [GenDefaults EXCEPT !.levels = lvs]
            /\ gen_in = <<64, 64>>
       \/ \E n \in 0..MaxOutIndices :
            \E oi \in [1..n -> (-(NumFeats + 1))..NumFeats] :
               /\ gen_args = [GenDefaults EXCEPT !.out_indices = oi]
               /\ gen_in = <<64, 64>>
    /\ gen = <<>>
    /\ gpc = "construct"
    /\ gen_err = ""
    /\ fwd_out = None
    /\ level_i = 0
    /\ out_feats = <<>>
    /\ dla_layers = <<>>
    /\ dla_out = <<>>
    /\ dla_i = 0
    /\ ida_i = 0
    /\ result = <<>>

\* model = VSGenerator(**gen_args): lines 331..335 assign the globals, then
\* the layers are built; an exception leaves no instance.
GenConstruct ==
    /\ gpc = "construct"
    /\ PADDING_MODE' = gen_args.padding_mode
    /\ UPSAMPLE_MODE' = gen_args.upsample_mode
    /\ LET m == VSGenerator(gen_args, PADDING_MODE')
       IN IF m.err = ""
          THEN /\ gen' = <<m>>
               /\ instances' = Append(instances,
                      [padding_mode |-> gen_args.padding_mode,
                       upsample_mode |-> gen_args.upsample_mode,
                       built_padding |-> PADDING_MODE',
                       built_upsample |-> UPSAMPLE_MODE'])
               /\ gpc' = "base_layer"
               /\ gen_err' = ""
          ELSE /\ gen' = <<>>
               /\ instances' = instances
               /\ gpc' = "raised"
               /\ gen_err' = m.err
    /\ UNCHANGED <<last_forward, gen_args, gen_in, fwd_out, level_i, out_feats,
                   dla_layers, dla_out, dla_i, ida_i, result>>
    /\ UNCHANGED nonGenVars

\* lines 401..402: out_feats = []; out = self.base_layer(x), x of shape
\* (BATCH_SIZE, input_channels, h, w).
FwdBaseLayer ==
    /\ gpc = "base_layer"
    /\ LET xin == OkT(BATCH_SIZE, gen_args.input_channels, gen_in[1], gen_in[2],
                      Term("input", <<>>, <<>>))
           o == ConvBNReluForward(gen[1].base_layer, xin)
       IN IF o.err = ""
          THEN /\ fwd_out' = [o EXCEPT !.t = Term("base_layer", <<>>, <<xin.t>>)]
               /\ gpc' = "levels"
               /\ gen_err' = ""
          ELSE /\ fwd_out' = fwd_out
               /\ gpc' = "raised"
               /\ gen_err' = o.err
    /\ out_feats' = <<>>
    /\ level_i' = 0
    /\ UNCHANGED <<gen_args, gen_in, gen, dla_layers, dla_out, dla_i, ida_i, result>>
    /\ UNCHANGED <<modeVars, nonGenVars>>

\* The levels forward_features collects (line 405).
CollectsMut(self, i) == TRUE
Collects(self, i) == i >= self.last_level

\* lines 403..406: one iteration of the loop over module_levels.
FwdLevel ==
    /\ gpc = "levels"
    /\ LET o == LevelForward(gen[1].module_levels[level_i + 1], fwd_out)
           tagged == [o EXCEPT !.t = Term("level", <<level_i>>, <<fwd_out.t>>)]
       IN IF o.err = ""
          THEN /\ fwd_out' = tagged
               /\ out_feats' = IF Collects(gen[1], level_i)
                               THEN Append(out_feats, tagged) ELSE out_feats
               /\ level_i' = level_i + 1
               /\ gpc' = IF level_i + 1 = Len(gen[1].module_levels)
                         THEN "mapper" ELSE "levels"
               /\ gen_err' = ""
          ELSE /\ UNCHANGED <<fwd_out, out_feats, level_i>>
               /\ gpc' = "raised"
               /\ gen_err' = o.err
    /\ UNCHANGED <<gen_args, gen_in, gen, dla_layers, dla_out, dla_i, ida_i, result>>
    /\ UNCHANGED <<modeVars, nonGenVars>>

\* line 408: out_feats[0] = self.last_level_mapper(out_feats[0]).
FwdMapper ==
    /\ gpc = "mapper"
    /\ LET mp == gen[1].last_level_mapper
           o == IF mp.none THEN out_feats[1]
                ELSE LET r == ConvBNReluForward(mp, out_feats[1])
                     IN IF r.err # "" THEN r
                        ELSE [r EXCEPT !.t = Term("mapper", <<>>, <<out_feats[1].t>>)]
       IN IF o.err = ""
          THEN /\ out_feats' = [out_feats EXCEPT ![1] = o]
               /\ gpc' = "dlaup"
               /\ gen_err' = ""
          ELSE /\ out_feats' = out_feats
               /\ gpc' = "raised"
               /\ gen_err' = o.err
    /\ UNCHANGED <<gen_args, gen_in, gen, fwd_out, level_i, dla_layers, dla_out,
                   dla_i, ida_i, result>>
    /\ UNCHANGED <<modeVars, nonGenVars>>

\* lines 420, 412, 283: forward_head(out_feats.copy()) calls
\* self.dlaup(out_feats), which starts with out = [layers[0]].
DlaStart ==
    /\ gpc = "dlaup"
    /\ dla_layers' = out_feats
    /\ dla_out' = <<dla_layers'[1]>>
    /\ dla_i' = 1
    /\ gpc' = "insert"
    /\ UNCHANGED <<gen_args, gen_in, gen, gen_err, fwd_out, level_i, out_feats,
                   ida_i, result>>
    /\ UNCHANGED <<modeVars, nonGenVars>>

\* lines 284..287: out.insert(0, layers[i]) and the call of ida_i on out.
DlaInsert ==
    /\ gpc = "insert"
    /\ dla_i < Len(gen[1].dlaup.channels)
    /\ dla_out' = InsertFront(dla_out, dla_layers[dla_i + 1])
    /\ ida_i' = 0
    /\ gpc' = "ida"
    /\ UNCHANGED <<gen_args, gen_in, gen, gen_err, fwd_out, level_i, out_feats,
                   dla_layers, dla_i, result>>
    /\ UNCHANGED <<modeVars, nonGenVars>>

\* The IDAUp that DLAUp.forward is running.
CurrentIda == gen[1].dlaup.idas[dla_i]

\* lines 261..269: one iteration of IDAUp.forward on the list out.
IdaStep ==
    /\ gpc = "ida"
    /\ ida_i < Len(CurrentIda.channels) - 1
    /\ LET o == IdaFuse(CurrentIda.steps[ida_i + 1], dla_i, ida_i,
                        dla_out[IdaSource(ida_i) + 1], dla_out[IdaTarget(ida_i) + 1],
                        UPSAMPLE_MODE)
       IN IF o.err = ""
          THEN /\ dla_out' = [dla_out EXCEPT ![IdaTarget(ida_i) + 1] = o]
               /\ ida_i' = ida_i + 1
               /\ gpc' = "ida"
               /\ gen_err' = ""
          ELSE /\ UNCHANGED <<dla_out, ida_i>>
               /\ gpc' = "raised"
               /\ gen_err' = o.err
    /\ UNCHANGED <<gen_args, gen_in, gen, fwd_out, level_i, out_feats, dla_layers,
                   dla_i, result>>
    /\ UNCHANGED <<modeVars, nonGenVars>>

\* IDAUp.forward's loop is exhausted: back in DLAUp.forward's loop.
IdaReturn ==
    /\ gpc = "ida"
    /\ ida_i = Len(CurrentIda.channels) - 1
    /\ dla_i' = dla_i + 1
    /\ gpc' = "insert"
    /\ UNCHANGED <<gen_args, gen_in, gen, gen_err, fwd_out, level_i, out_feats,
                   dla_layers, dla_out, ida_i, result>>
    /\ UNCHANGED <<modeVars, nonGenVars>>

\* lines 291, 417: DLAUp.forward returns out; forward_head returns
\* [out[i] for i in self.out_indices].
FwdSelect ==
    /\ gpc = "insert"
    /\ dla_i = Len(gen[1].dlaup.channels)
    /\ LET oi == gen[1].out_indices
           picks == [k \in 1..Len(oi) |-> PyIndex(dla_out, oi[k])]
       IN IF \E k \in 1..Len(oi) : picks[k] = <<>>
          THEN /\ result' = result
               /\ gpc' = "raised"
               /\ gen_err' = "IndexError"
          ELSE /\ result' = <<[k \in 1..Len(oi) |-> picks[k][1]]>>
               /\ gpc' = "done"
               /\ gen_err' = ""
    /\ UNCHANGED <<gen_args, gen_in, gen, fwd_out, level_i, out_feats, dla_layers,
                   dla_out, dla_i, ida_i>>
    /\ UNCHANGED <<modeVars, nonGenVars>>

GenNext ==
    \/ GenConstruct
    \/ FwdBaseLayer
    \/ FwdLevel
    \/ FwdMapper
    \/ DlaStart
    \/ DlaInsert
    \/ IdaStep
    \/ IdaReturn
    \/ FwdSelect

SpecGen == GenInit /\ [][GenNext]_vars


\* The input's height and width are multiples of 32, at least 64: every
\* stage halves them exactly and the coarsest map is at least 2 x 2.
GenValidInput ==
    \A d \in 1..2 : gen_in[d] % 32 = 0 /\ gen_in[d] >= 64

\* The channel count of collected map k (1 = stage 1) once forward_features
\* has returned.
FeatChannels(k) ==
    IF k = 1 /\ gen_args.ida_channels # 0 THEN gen_args.ida_channels
    ELSE gen_args.channels[k + 1]

\* C5 (as claimed): for each of the five norm_name values and the default
\* channel schedule, construction of VSGenerator succeeds and the tensors of
\* the forward pass have shapes that do not depend on norm_name: collected
\* map k has the channels of its stage and the input's extent divided by 2^k.
C5_AllNormsSameShapes ==
    (/\ gen_args.channels = GenDefaults.channels
     /\ gen_args.levels = GenDefaults.levels
     /\ gen_args.out_indices = GenDefaults.out_indices
     /\ GenValidInput)
    => /\ gpc # "raised"
       /\ \A k \in 1..Len(out_feats) :
            /\ out_feats[k].h = gen_in[1] \div Pow2(k)
            /\ out_feats[k].w = gen_in[2] \div Pow2(k)
            /\ out_feats[k].c = IF gpc \in {"levels", "mapper"}
                                THEN gen_args.channels[k + 1] ELSE FeatChannels(k)

\* What C6 says of a run that has not raised: the maps collected are those
\* of stages 1..5 in order (never stage 0), only the first of them went
\* through the remapping layer, DLAUp works on exactly those five, and the
\* list forward returns has one tensor per out_indices entry, the k-th being
\* entry out_indices[k] (a Python index) of DLAUp's list.
C6_Returns ==
    /\ \A k \in 1..Len(out_feats) :
          LET t == out_feats[k].t
          IN IF t[1] = "mapper"
             THEN /\ k = 1
                  /\ gen_args.ida_channels # 0
                  /\ t[3] = <<<<"level", <<1>>, <<>>>>>>
             ELSE /\ t[1] = "level"
                  /\ t[2] = <<k>>
                  /\ (k = 1 /\ gpc \notin {"levels", "mapper"})
                        => gen_args.ida_channels = 0
    /\ gpc \in {"mapper", "dlaup", "insert", "ida", "done"} => Len(out_feats) = NumFeats
    /\ gpc \in {"insert", "ida", "done"} => dla_layers = out_feats
    /\ gpc = "done" =>
          /\ Len(dla_out) = NumFeats
          /\ Len(result[1]) = Len(gen_args.out_indices)
          /\ \A k \in 1..Len(gen_args.out_indices) :
                LET i == gen_args.out_indices[k]
                IN result[1][k] = dla_out[IF i >= 0 THEN i + 1 ELSE NumFeats + i + 1]

\* C6 (as claimed): for any channel schedule, any depth schedule and any
\* out_indices, construction succeeds and forward returns the tensors
\* C6_Returns describes.
C6_AnySchedule ==
    (gen_args.norm_name = "batch" /\ GenValidInput)
    => (gpc # "raised" /\ C6_Returns)

\* The schedules and out_indices for which the run goes through: every depth
\* and channel count at least 1, every index within -5..4.
C6_Valid ==
    /\ gen_args.norm_name = "batch"
    /\ GenValidInput
    /\ \A i \in 1..6 : gen_args.levels[i] >= 1 /\ gen_args.channels[i] >= 1
    /\ \A k \in 1..Len(gen_args.out_indices) :
          gen_args.out_indices[k] \in (-NumFeats)..(NumFeats - 1)

\* C6 (amended): for any channel schedule and depth schedule of length 6
\* whose entries are all at least 1 and any out_indices whose entries all
\* lie in -5..4, construction succeeds and forward returns the tensors
\* C6_Returns describes.
C6_ValidSchedule == C6_Valid => (gpc # "raised" /\ C6_Returns)

\* A run returned two tensors, picked by a negative and a positive index.
C6_Witness ==
    /\ gpc = "done"
    /\ C6_Valid
    /\ Len(gen_args.out_indices) = 2
    /\ gen_args.out_indices[1] < 0
    /\ gen_args.out_indices[2] > 0
    /\ Len(result[1]) = 2

\* C7: IDAUp.forward on a list of n maps makes the n-1 fusion steps
\* i = 0..n-2 in order; step i reads entry i as the previous step left it
\* (for i >= 1 the map fused by step i-1) and overwrites entry i+1, and
\* nothing else, with the fusion of entry i and the previous entry i+1, which
\* has the previous entry's shape; entry 0 is never written and the length
\* of the list never changes.  On a generator built from a valid schedule
\* every one of the n-1 steps is made: none raises.
C7_IdaStepOrder ==
    [][/\ (gpc = "insert" /\ gpc' = "ida") => ida_i' = 0
       /\ (gpc = "ida" /\ ida_i < Len(dla_out) - 1 /\ C6_Valid) => gpc' = "ida"
       /\ (gpc = "ida" /\ gpc' = "ida") =>
             LET i == ida_i
             IN /\ ida_i' = i + 1
                /\ i <= Len(dla_out) - 2
                /\ Len(dla_out') = Len(dla_out)
                /\ \A j \in 1..Len(dla_out) : j # i + 2 => dla_out'[j] = dla_out[j]
                /\ dla_out'[i + 2].t = <<"node", <<dla_i, i>>,
                                         <<Leaf(dla_out[i + 1].t), Leaf(dla_out[i + 2].t)>>>>
                /\ Shape(dla_out'[i + 2]) = Shape(dla_out[i + 2])
                /\ i >= 1 => /\ dla_out[i + 1].t[1] = "node"
                             /\ dla_out[i + 1].t[2] = <<dla_i, i - 1>>
       /\ (gpc = "ida" /\ gpc' = "insert") =>
             /\ ida_i = Len(dla_out) - 1
             /\ dla_out' = dla_out
       /\ gpc = "ida" => (Len(dla_out') = Len(dla_out) /\ dla_out'[1] = dla_out[1])
      ]_vars

\* The last IDAUp (n = 5) has made all its four steps.
C7_Witness ==
    /\ gpc = "ida"
    /\ Len(dla_out) = NumFeats
    /\ ida_i = NumFeats - 1
    /\ \A j \in 2..NumFeats : dla_out[j].t[1] = "node" /\ dla_out[j].t[2] = <<dla_i, j - 2>>

\* No entry of DLAUp's working list has been replaced by a fused map yet.
NothingFused == \A j \in 1..Len(dla_out) : dla_out[j].t[1] # "node"

\* C8: DLAUp.forward on n maps given finest first starts from [layers[0]] and
\* runs rounds i = 1..n-1 in increasing order; round i inserts layers[i] at
\* the front of the working list and runs IDAUp number i over the whole list.
\* The first entry ever replaced is the finest map, at the last position; the
\* list returned has n entries, the coarsest input at position 0, identical
\* to the input; the list passed in is never modified.
C8_DlaRounds ==
    [][/\ (gpc = "dlaup" /\ gpc' = "insert") =>
             (dla_i' = 1 /\ dla_out' = <<dla_layers'[1]>> /\ dla_layers' = out_feats)
       /\ (gpc = "insert" /\ gpc' = "ida") =>
             /\ dla_i \in 1..(Len(dla_layers) - 1)
             /\ dla_out' = <<dla_layers[dla_i + 1]>> \o dla_out
             /\ Len(dla_out') = dla_i + 1
             /\ dla_i' = dla_i
       /\ (gpc = "ida" /\ gpc' = "ida") =>
             /\ dla_i' = dla_i
             /\ dla_out'[ida_i + 2].t[2] = <<dla_i, ida_i>>
             /\ NothingFused =>
                   /\ dla_out'[Len(dla_out)] # dla_out[Len(dla_out)]
                   /\ dla_out[Len(dla_out)] = dla_layers[1]
       /\ (gpc = "ida" /\ gpc' = "insert") =>
             (dla_i' = dla_i + 1 /\ ida_i = Len(dla_out) - 1)
       /\ gpc \in {"insert", "ida"} =>
             (dla_layers' = dla_layers /\ out_feats' = out_feats)
       /\ gpc' = "done" =>
             /\ Len(dla_out') = Len(dla_layers')
             /\ dla_out'[1] = dla_layers'[Len(dla_layers')]
             /\ dla_out'[Len(dla_out')].t[1] = "node"
             /\ dla_layers' = out_feats'
      ]_vars

\* DLAUp returned its five maps: the finest fused, the coarsest as given.
C8_Witness ==
    /\ gpc = "done"
    /\ Len(dla_out) = NumFeats
    /\ dla_out[NumFeats].t[1] = "node"
    /\ dla_out[1] = dla_layers[NumFeats]


\* forward_features is about to run, or has just failed in, a Tree stage.
AtTreeStage ==
    /\ gen # <<>>
    /\ gpc \in {"levels", "raised"}
    /\ level_i \in 2..5

\* The Tree of that stage holding its first residual block, the shortcut
\* Tree.forward hands to the block and the block's main-path output.
StageFirstTree == FirstBlockTree(gen[1].module_levels[level_i + 1].m)
StageShortcut == TreeShortcut(StageFirstTree, fwd_out)
StageMain == ResidualMain(StageFirstTree.tree1, fwd_out)

\* C11 (as claimed): in every Tree stage of a VSGenerator, for every input
\* height and width, the shortcut handed to the first residual block has the
\* channel count and the spatial size of the block's main-path output, and
\* the stage does not fail in `out += shortcut`.
C11_ShortcutMatchesMain ==
    (AtTreeStage /\ StageShortcut.err = "" /\ StageMain.err = "")
    => /\ Shape(StageShortcut) = Shape(StageMain)
       /\ gpc # "raised"


====
